---- MODULE Spec2Model ----
(***************************************************************************)
(* temp_env_vars: TempEnvScope (snapshot of the process environment taken  *)
(* by new(), restored by Drop) and the function wrapper generated by       *)
(* #[temp_env_vars] (lock TEMP_ENV_VAR_MACRO_MUTEX, construct the scope,   *)
(* run the body, drop the locals in reverse declaration order).            *)
(***************************************************************************)
EXTENDS Integers, FiniteSets, Sequences, TLC

\* ------------------------------------------------------------- bounds
MaxNames == 2      \* variable names 1..MaxNames
MaxValues == 2     \* variable values 1..MaxValues
MaxThreads == 2    \* threads, each calling one wrapped function
MaxGuards == 2     \* TempEnvScope values one thread constructs
MaxOps == 2        \* set_var / remove_var calls one thread makes

Names == 1..MaxNames
Values == 1..MaxValues
Threads == 1..MaxThreads
Slots == 1..MaxGuards

\* ------------------------------------------------------------- state
VARIABLES
    env,        \* the process environment: a set of <<name, value>> entries
    mutex,      \* TEMP_ENV_VAR_MACRO_MUTEX: [locked, poisoned]
    pc,         \* pc[t]: where thread t is
    frame,      \* frame[t]: the wrapper's locals: declared so far, then left to drop
    exitKind,   \* exitKind[t]: how the body ended ("none" while it has not)
    lockGuard,  \* lockGuard[t]: the LockResult bound to _temp_env_vars_scope_lock
    scopes,     \* scopes[t][g]: the g-th TempEnvScope of thread t
    cur,        \* cur[t]: the scope whose drop() thread t is executing (0: none)
    after,      \* after[t]: drop()'s local HashMap `after`
    iter,       \* iter[t]: keys the running for_each of drop() has not visited
    ops,        \* ops[t]: set_var / remove_var calls made by thread t
    obs,        \* obs[t][g]: what a test observes about scope g (its `original`)
    rel,        \* rel[t]: the observation of the scope thread t has just released
    view,       \* view[t]: the environment as thread t's own code read and left it
    env0,       \* the environment at process start ({} where a specification
                \* begins inside a running test and does not follow it)
    lazy        \* the TEMP_ENV_VAR_MACRO_MUTEX statics: cell[s] is the LazyLock of
                \* crate s, ref[t] the Mutex instance thread t got from it

vars == <<env, mutex, pc, frame, exitKind, lockGuard, scopes, cur, after, iter,
          ops, obs, rel, view, env0, lazy>>

\* ------------------------------------------------------------- pure helpers
\* The empty HashMap<String, String>.
EmptyMap == [k \in {} |-> 0]

\* Every environment: no name occurs twice.
AllEnvs == {e \in SUBSET (Names \X Values) : \A p, q \in e : p[1] = q[1] => p = q}

\* The environments a run starts from: any set of names, each with the value the
\* process was started with (the code never inspects a value, so one preset
\* value stands for any; the other environments are reached by set_var).
Preset == 1
StartEnvs == {e \in AllEnvs : \A p \in e : p[2] = Preset}

\* std::env::vars().collect(): the entries of the environment as a HashMap.
Collect(e) == [k \in {p[1] : p \in e} |-> CHOOSE v \in Values : <<k, v>> \in e]

\* std::env::set_var(k, v)
SetVarIn(e, k, v) == {p \in e : p[1] # k} \cup {<<k, v>>}

\* std::env::remove_var(k)
RemoveVarIn(e, k) == {p \in e : p[1] # k}

\* Mutant of Extra: nothing is taken for an added variable.
ExtraNone(afterAll, original) == [k \in {} |-> 0]

\* Mutant of Extra: the first for_each is missing, every variable is removed
\* before the snapshot is written back.
ExtraAll(afterAll, original) == afterAll

\* drop(), first for_each: `after` with every key of original_vars removed.
Extra(afterAll, original) == [k \in DOMAIN afterAll \ DOMAIN original |-> afterAll[k]]

\* Mutants of RestoreKeys: the third for_each is missing; it visits only the
\* keys the environment has lost; it visits only the keys the environment kept.
RestoreKeysNone(original) == {}
RestoreKeysMissing(original) == DOMAIN original \ DOMAIN Collect(env)
RestoreKeysPresent(original) == DOMAIN original \cap DOMAIN Collect(env)

\* Mutant of RestoreKeys: snapshots are kept as a stack, only the scope
\* constructed last restores.
RestoreKeysInnermost(original) ==
    IF \E t \in Threads : /\ cur[t] # 0
                           /\ \E h \in Slots : h > cur[t] /\ scopes[t][h].st = "alive"
    THEN {}
    ELSE DOMAIN original

\* drop(), third for_each: the keys original_vars.iter() visits.
RestoreKeys(original) == DOMAIN original

\* Mutant of RestoreValue: a variable that is still set is written back with
\* the value it has now.
RestoreValueCurrent(original, k) ==
    IF k \in DOMAIN Collect(env) THEN Collect(env)[k] ELSE original[k]

\* drop(), third for_each: the value written for key k.
RestoreValue(original, k) == original[k]

\* The locals the generated function declares, in declaration order.
LOCK == "_temp_env_vars_scope_lock"
SCOPE == "_temp_env_vars_scope"

\* Mutant of Locals: the scope is declared before the lock.
LocalsSwapped == <<SCOPE, LOCK>>

Locals == <<LOCK, SCOPE>>

\* The next `let` the generated function executes.
NextLet(f) == Locals[Len(f) + 1]

Reverse(f) == [i \in 1..Len(f) |-> f[Len(f) + 1 - i]]

\* Mutants of CanLock: the lock excludes nobody; a poisoned mutex is never
\* acquired again.
CanLockAlways(m) == TRUE
CanLockUnpoisoned(m) == ~m.locked /\ ~m.poisoned

\* Mutex::lock() blocks while the mutex is locked; poisoning does not block it.
CanLock(m) == ~m.locked

\* Mutex::lock() returns Err(PoisonError { guard }) on a poisoned mutex, Ok(guard)
\* otherwise; both hold the MutexGuard.
LockResult(m) == IF m.poisoned THEN "Err" ELSE "Ok"

\* Mutants of Unwound: the locals are dropped in declaration order; a panic
\* runs no drop.
UnwoundForward(f, kind) == f
UnwoundNoPanic(f, kind) == IF kind = "panic" THEN <<>> ELSE Reverse(f)

\* The drops that run when the body ends by `kind` (falling through, an early
\* return, a panic that unwinds): every local of the frame f, on every exit
\* path, in reverse declaration order.
Unwound(f, kind) == Reverse(f)

NoScope == [st |-> "unborn", original_vars |-> EmptyMap]
DeadScope == [st |-> "dead", original_vars |-> EmptyMap]
NoObs == [e0 |-> {}, changed |-> {}, removed |-> {}]
NoRel == [g |-> 0, e0 |-> {}, changed |-> {}, removed |-> {}]

\* The crates that declare a static TEMP_ENV_VAR_MACRO_MUTEX.
Statics == {"temp_env_vars", "temp_env_vars_core"}

\* Mutant of MacroStatic: the generated functions do not all name the same
\* crate's static.
MacroStaticPerCrate(t) == IF t = 1 THEN "temp_env_vars" ELSE "temp_env_vars_core"

\* The static the function generated for thread t locks: the path written in
\* the macro's output, the same for every function.
MacroStatic(t) == "temp_env_vars"

\* Mutant of OnceFree: the initialiser may be entered until it has completed.
OnceFreeRacy(c) == c.state # "init"

\* LazyLock's Once lets one caller in: the cell is still uninitialised and
\* nobody is running the initialiser.
OnceFree(c) == c.state = "uninit"

\* No thread has a reference to a Mutex yet.
NoRef == <<>>

\* The statics before their first access: no initialiser has run, no Mutex
\* has been built, no thread has a reference to one.
LazyInit ==
    [cell |-> [s \in Statics |-> [state |-> "uninit", by |-> {}, built |-> 0]],
     ref |-> [t \in Threads |-> NoRef]]

\* The scope the wrapper owns is the first scope of its thread.
WrapSlot == 1
\* The single thread of the unit tests.
Main == 1

Alive(t) == {g \in Slots : scopes[t][g].st = "alive"}
Holds(t) == lockGuard[t] # "None"

\* ------------------------------------------------------------- observer
\* A set_var / remove_var by thread t, as seen against the `original` of each
\* scope of t that is alive.
ObsSet(t, k, v) ==
    [obs EXCEPT ![t] = [g \in Slots |->
        IF g \in Alive(t) /\ <<k, v>> \notin obs[t][g].e0
        THEN [obs[t][g] EXCEPT !.changed = @ \cup {k}]
        ELSE obs[t][g]]]

ObsRemove(t, k) ==
    [obs EXCEPT ![t] = [g \in Slots |->
        IF g \in Alive(t)
        THEN [obs[t][g] EXCEPT !.removed = @ \cup {k}]
        ELSE obs[t][g]]]

\* ------------------------------------------------------------- TempEnvScope
\* Mutant of New: a scope constructed while another one is alive shares that
\* one's snapshot.
NewShared(t, g) ==
    /\ scopes[t][g].st = "unborn"
    /\ \A h \in Slots : h < g => scopes[t][h].st # "unborn"
    /\ scopes' = [scopes EXCEPT ![t][g] =
                     [st |-> "alive",
                      original_vars |->
                          IF Alive(t) = {} THEN Collect(env)
                          ELSE scopes[t][CHOOSE h \in Alive(t) : TRUE].original_vars]]
    /\ obs' = [obs EXCEPT ![t][g] = [e0 |-> env, changed |-> {}, removed |-> {}]]
    /\ view' = [view EXCEPT ![t] = env]
    /\ rel' = [rel EXCEPT ![t] = NoRel]

\* Mutant of New: the snapshot is taken lazily, the new scope holds none yet.
NewLazy(t, g) ==
    /\ scopes[t][g].st = "unborn"
    /\ \A h \in Slots : h < g => scopes[t][h].st # "unborn"
    /\ scopes' = [scopes EXCEPT ![t][g] = [st |-> "alive", original_vars |-> EmptyMap]]
    /\ obs' = [obs EXCEPT ![t][g] = [e0 |-> env, changed |-> {}, removed |-> {}]]
    /\ view' = [view EXCEPT ![t] = env]
    /\ rel' = [rel EXCEPT ![t] = NoRel]

\* TempEnvScope::new(): original_vars = std::env::vars().collect()
New(t, g) ==
    /\ scopes[t][g].st = "unborn"
    /\ \A h \in Slots : h < g => scopes[t][h].st # "unborn"
    /\ scopes' = [scopes EXCEPT ![t][g] =
                     [st |-> "alive", original_vars |-> Collect(env)]]
    /\ obs' = [obs EXCEPT ![t][g] = [e0 |-> env, changed |-> {}, removed |-> {}]]
    /\ view' = [view EXCEPT ![t] = env]
    /\ rel' = [rel EXCEPT ![t] = NoRel]

\* drop(), up to the end of the first for_each: read the environment, remove the
\* snapshot's keys from `after`.
DropBegin(t, g) ==
    /\ scopes[t][g].st = "alive"
    /\ scopes' = [scopes EXCEPT ![t][g].st = "dropping"]
    /\ cur' = [cur EXCEPT ![t] = g]
    /\ after' = [after EXCEPT ![t] = Extra(Collect(env), scopes[t][g].original_vars)]
    /\ iter' = [iter EXCEPT ![t] = DOMAIN after'[t]]
    /\ pc' = [pc EXCEPT ![t] = "drop_remove"]
    /\ rel' = [rel EXCEPT ![t] = NoRel]
    /\ UNCHANGED <<env, mutex, frame, exitKind, lockGuard, ops, obs, view>>
    /\ UNCHANGED <<env0, lazy>>

\* drop(), second for_each: one std::env::remove_var(key), keys in any order.
DropRemove(t, k) ==
    /\ pc[t] = "drop_remove"
    /\ k \in iter[t]
    /\ env' = RemoveVarIn(env, k)
    /\ iter' = [iter EXCEPT ![t] = @ \ {k}]
    /\ UNCHANGED <<mutex, pc, frame, exitKind, lockGuard, scopes, cur, after, ops,
                   obs, rel, view>>
    /\ UNCHANGED <<env0, lazy>>

\* drop(): the second for_each is exhausted, the third starts.
DropRemoveDone(t) ==
    /\ pc[t] = "drop_remove"
    /\ iter[t] = {}
    /\ pc' = [pc EXCEPT ![t] = "drop_set"]
    /\ iter' = [iter EXCEPT ![t] = RestoreKeys(scopes[t][cur[t]].original_vars)]
    /\ UNCHANGED <<env, mutex, frame, exitKind, lockGuard, scopes, cur, after, ops,
                   obs, rel, view>>
    /\ UNCHANGED <<env0, lazy>>

\* Mutant of DropSet: the third for_each drains original_vars, every pair
\* leaves the snapshot as it is written back.
DropSetDrain(t, k) ==
    LET o == scopes[t][cur[t]].original_vars
    IN  /\ pc[t] = "drop_set"
        /\ k \in iter[t]
        /\ env' = SetVarIn(env, k, RestoreValue(o, k))
        /\ iter' = [iter EXCEPT ![t] = @ \ {k}]
        /\ scopes' = [scopes EXCEPT ![t][cur[t]].original_vars =
                          [j \in DOMAIN o \ {k} |-> o[j]]]
        /\ UNCHANGED <<mutex, pc, frame, exitKind, lockGuard, cur, after, ops,
                       obs, rel, view>>
        /\ UNCHANGED <<env0, lazy>>

\* drop(), third for_each: one std::env::set_var(k, v), pairs in any order.
DropSet(t, k) ==
    /\ pc[t] = "drop_set"
    /\ k \in iter[t]
    /\ env' = SetVarIn(env, k, RestoreValue(scopes[t][cur[t]].original_vars, k))
    /\ iter' = [iter EXCEPT ![t] = @ \ {k}]
    /\ UNCHANGED <<mutex, pc, frame, exitKind, lockGuard, scopes, cur, after, ops,
                   obs, rel, view>>
    /\ UNCHANGED <<env0, lazy>>

\* A local of the generated function has been dropped: it leaves the frame, and
\* with the last one gone the call is over (a panic ends the thread).
PopLocal(t) ==
    LET f == Tail(frame[t])
        over == f = <<>>
    IN  /\ frame' = [frame EXCEPT ![t] = f]
        /\ pc' = [pc EXCEPT ![t] = IF over THEN "done" ELSE "exit"]
        /\ exitKind' = [exitKind EXCEPT ![t] = IF over THEN "none" ELSE @]
        /\ ops' = [ops EXCEPT ![t] = IF over THEN 0 ELSE @]
        /\ view' = [view EXCEPT ![t] = IF over THEN {} ELSE @]

\* drop() returns: the scope is gone.
DropEnd(t) ==
    /\ pc[t] = "drop_set"
    /\ iter[t] = {}
    /\ scopes' = [scopes EXCEPT ![t][cur[t]] = DeadScope]
    /\ rel' = [rel EXCEPT ![t] = [g |-> cur[t], e0 |-> obs[t][cur[t]].e0,
                                  changed |-> obs[t][cur[t]].changed,
                                  removed |-> obs[t][cur[t]].removed]]
    /\ obs' = [obs EXCEPT ![t][cur[t]] = NoObs]
    /\ cur' = [cur EXCEPT ![t] = 0]
    /\ after' = [after EXCEPT ![t] = EmptyMap]
    /\ IF exitKind[t] = "none"
       THEN /\ pc' = [pc EXCEPT ![t] = "body"]
            /\ UNCHANGED <<frame, exitKind, ops, view>>
       ELSE PopLocal(t)
    /\ UNCHANGED <<env, mutex, lockGuard, iter>>
    /\ UNCHANGED <<env0, lazy>>

\* ------------------------------------------------------------- the body's code
\* std::env::set_var(k, v) in the code under the scope
SetVar(t, k, v) ==
    /\ pc[t] = "body"
    /\ ops[t] < MaxOps
    /\ env' = SetVarIn(env, k, v)
    /\ ops' = [ops EXCEPT ![t] = @ + 1]
    /\ obs' = ObsSet(t, k, v)
    /\ view' = [view EXCEPT ![t] = SetVarIn(@, k, v)]
    /\ rel' = [rel EXCEPT ![t] = NoRel]
    /\ UNCHANGED <<mutex, pc, frame, exitKind, lockGuard, scopes, cur, after, iter>>
    /\ UNCHANGED <<env0, lazy>>

\* std::env::remove_var(k) in the code under the scope
RemoveVar(t, k) ==
    /\ pc[t] = "body"
    /\ ops[t] < MaxOps
    /\ env' = RemoveVarIn(env, k)
    /\ ops' = [ops EXCEPT ![t] = @ + 1]
    /\ obs' = ObsRemove(t, k)
    /\ view' = [view EXCEPT ![t] = RemoveVarIn(@, k)]
    /\ rel' = [rel EXCEPT ![t] = NoRel]
    /\ UNCHANGED <<mutex, pc, frame, exitKind, lockGuard, scopes, cur, after, iter>>
    /\ UNCHANGED <<env0, lazy>>

\* ------------------------------------------------------------- unit-test style use
\* let _env_scope = TempEnvScope::new();
ScopeNew(t, g) ==
    /\ pc[t] = "body"
    /\ New(t, g)
    /\ UNCHANGED <<env, mutex, pc, frame, exitKind, lockGuard, cur, after, iter, ops>>
    /\ UNCHANGED <<env0, lazy>>

\* drop(_env_scope), or the end of the block that owns the scope
ScopeDrop(t, g) ==
    /\ pc[t] = "body"
    /\ DropBegin(t, g)

\* ------------------------------------------------------------- the wrapper
\* The generated function is called.
Call(t) ==
    /\ pc[t] = "idle"
    /\ pc' = [pc EXCEPT ![t] = "enter"]
    /\ UNCHANGED <<env, mutex, frame, exitKind, lockGuard, scopes, cur, after, iter,
                   ops, obs, rel, view>>
    /\ UNCHANGED <<env0, lazy>>

\* A `let` has been executed: the local is in the frame; after the last one the
\* body starts.
Declared(t, name) ==
    /\ frame' = [frame EXCEPT ![t] = Append(@, name)]
    /\ pc' = [pc EXCEPT ![t] = IF Len(frame[t]) + 1 = Len(Locals) THEN "body" ELSE "enter"]

\* let _temp_env_vars_scope_lock = temp_env_vars::TEMP_ENV_VAR_MACRO_MUTEX.lock();
Lock(t) ==
    /\ pc[t] = "enter"
    /\ NextLet(frame[t]) = LOCK
    /\ CanLock(mutex)
    /\ mutex' = [mutex EXCEPT !.locked = TRUE]
    /\ lockGuard' = [lockGuard EXCEPT ![t] = LockResult(mutex)]
    /\ Declared(t, LOCK)
    /\ UNCHANGED <<env, exitKind, scopes, cur, after, iter, ops, obs, rel, view>>
    /\ UNCHANGED <<env0, lazy>>

\* let _temp_env_vars_scope = temp_env_vars::TempEnvScope::new();
WrapNew(t) ==
    /\ pc[t] = "enter"
    /\ NextLet(frame[t]) = SCOPE
    /\ New(t, WrapSlot)
    /\ Declared(t, SCOPE)
    /\ UNCHANGED <<env, mutex, exitKind, lockGuard, cur, after, iter, ops>>
    /\ UNCHANGED <<env0, lazy>>

\* The body ends: it falls through, returns early, or panics.
BodyEnd(t, kind) ==
    /\ pc[t] = "body"
    /\ exitKind' = [exitKind EXCEPT ![t] = kind]
    /\ frame' = [frame EXCEPT ![t] = Unwound(@, kind)]
    /\ pc' = [pc EXCEPT ![t] = IF Unwound(frame[t], kind) = <<>> THEN "done" ELSE "exit"]
    /\ rel' = [rel EXCEPT ![t] = NoRel]
    /\ UNCHANGED <<env, mutex, lockGuard, scopes, cur, after, iter, ops, obs, view>>
    /\ UNCHANGED <<env0, lazy>>

\* The scope local is the next to be dropped.
WrapDrop(t) ==
    /\ pc[t] = "exit"
    /\ Head(frame[t]) = SCOPE
    /\ DropBegin(t, WrapSlot)

\* The lock local is the next to be dropped: MutexGuard::drop unlocks, and
\* poisons the mutex when the thread is panicking.
Unlock(t) ==
    /\ pc[t] = "exit"
    /\ Head(frame[t]) = LOCK
    /\ mutex' = [locked |-> FALSE,
                 poisoned |-> mutex.poisoned \/ exitKind[t] = "panic"]
    /\ lockGuard' = [lockGuard EXCEPT ![t] = "None"]
    /\ PopLocal(t)
    /\ rel' = [rel EXCEPT ![t] = NoRel]
    /\ UNCHANGED <<env, scopes, cur, after, iter, obs>>
    /\ UNCHANGED <<env0, lazy>>

\* ------------------------------------------------------------- specifications
InitCommon ==
    /\ env \in StartEnvs
    /\ mutex = [locked |-> FALSE, poisoned |-> FALSE]
    /\ frame = [t \in Threads |-> <<>>]
    /\ exitKind = [t \in Threads |-> "none"]
    /\ lockGuard = [t \in Threads |-> "None"]
    /\ scopes = [t \in Threads |-> [g \in Slots |-> NoScope]]
    /\ cur = [t \in Threads |-> 0]
    /\ after = [t \in Threads |-> EmptyMap]
    /\ iter = [t \in Threads |-> {}]
    /\ ops = [t \in Threads |-> 0]
    /\ obs = [t \in Threads |-> [g \in Slots |-> NoObs]]
    /\ rel = [t \in Threads |-> NoRel]
    /\ lazy = LazyInit

\* Threads that each call one function generated by #[temp_env_vars].
Init ==
    /\ InitCommon
    /\ pc = [t \in Threads |-> "idle"]
    /\ view = [t \in Threads |-> {}]
    /\ env0 = env

Next ==
    \E t \in Threads :
        \/ Call(t)
        \/ Lock(t)
        \/ WrapNew(t)
        \/ \E k \in Names, v \in Values : SetVar(t, k, v)
        \/ \E k \in Names : RemoveVar(t, k)
        \/ \E kind \in {"fall", "return", "panic"} : BodyEnd(t, kind)
        \/ WrapDrop(t)
        \/ \E k \in Names : DropRemove(t, k)
        \/ DropRemoveDone(t)
        \/ \E k \in Names : DropSet(t, k)
        \/ DropEnd(t)
        \/ Unlock(t)

Spec == Init /\ [][Next]_vars

\* What a thread that has called its generated function does next.  The body
\* ends: it makes at most one mutation, then falls through, returns or panics.
Section(t) ==
    \/ Lock(t)
    \/ WrapNew(t)
    \/ \E k \in Names, v \in Values : ops[t] = 0 /\ SetVar(t, k, v)
    \/ \E k \in Names : ops[t] = 0 /\ RemoveVar(t, k)
    \/ \E kind \in {"fall", "return", "panic"} : BodyEnd(t, kind)
    \/ WrapDrop(t)
    \/ \E k \in Names : DropRemove(t, k)
    \/ DropRemoveDone(t)
    \/ \E k \in Names : DropSet(t, k)
    \/ DropEnd(t)
    \/ Unlock(t)

\* The same threads under a scheduler that keeps running every thread that can
\* take a step; a thread blocked in lock() can take none until the mutex is
\* free.
NextFair == \E t \in Threads : Call(t) \/ Section(t)

SpecFair == Init /\ [][NextFair]_vars /\ \A t \in Threads : WF_vars(Section(t))

\* One thread that uses TempEnvScope directly, as the unit tests do.
InitScopes ==
    /\ InitCommon
    /\ pc = [t \in Threads |-> IF t = Main THEN "body" ELSE "idle"]
    /\ view = [t \in Threads |-> IF t = Main THEN env ELSE {}]
    /\ env0 = {}

NextScopes ==
    \/ \E g \in Slots : ScopeNew(Main, g)
    \/ \E k \in Names, v \in Values : SetVar(Main, k, v)
    \/ \E k \in Names : RemoveVar(Main, k)
    \/ \E g \in Slots : ScopeDrop(Main, g)
    \/ \E k \in Names : DropRemove(Main, k)
    \/ DropRemoveDone(Main)
    \/ \E k \in Names : DropSet(Main, k)
    \/ DropEnd(Main)

SpecScopes == InitScopes /\ [][NextScopes]_vars

\* ------------------------------------------------------------- unprotected
\* A function that declares a TempEnvScope itself and takes no lock:
\*     fn f() { let _env_scope = TempEnvScope::new(); ... }
\* The scope is its only local.
BareNew(t) ==
    /\ pc[t] = "idle"
    /\ New(t, WrapSlot)
    /\ frame' = [frame EXCEPT ![t] = <<SCOPE>>]
    /\ pc' = [pc EXCEPT ![t] = "body"]
    /\ UNCHANGED <<env, mutex, exitKind, lockGuard, cur, after, iter, ops>>
    /\ UNCHANGED <<env0, lazy>>

\* The two threads of the test harness that run such functions in parallel.
Pair == {1, 2}

NextUnprotected ==
    \E t \in Pair :
        \/ BareNew(t)
        \/ \E k \in Names, v \in Values : ops[t] = 0 /\ SetVar(t, k, v)
        \/ \E k \in Names : ops[t] = 0 /\ RemoveVar(t, k)
        \/ BodyEnd(t, "fall")
        \/ WrapDrop(t)
        \/ \E k \in Names : DropRemove(t, k)
        \/ DropRemoveDone(t)
        \/ \E k \in Names : DropSet(t, k)
        \/ DropEnd(t)

SpecUnprotected == Init /\ [][NextUnprotected]_vars

\* ------------------------------------------------------------- LazyLock
\* Thread t is at the `let` that locks the mutex.
AtLock(t) == pc[t] = "enter" /\ NextLet(frame[t]) = LOCK

\* TEMP_ENV_VAR_MACRO_MUTEX is dereferenced for the first time: the thread
\* enters LazyLock's initialiser.
ForceBegin(t) ==
    LET s == MacroStatic(t)
    IN  /\ AtLock(t)
        /\ lazy.ref[t] = NoRef
        /\ t \notin lazy.cell[s].by
        /\ OnceFree(lazy.cell[s])
        /\ lazy' = [lazy EXCEPT !.cell[s].state = "running",
                                !.cell[s].by = @ \cup {t}]
        /\ UNCHANGED <<env, mutex, pc, frame, exitKind, lockGuard, scopes, cur, after,
                       iter, ops, obs, rel, view, env0>>

\* Arc::default builds the Mutex; the cell is initialised and the thread has
\* its reference.
ForceInit(t) ==
    LET s == MacroStatic(t)
        n == lazy.cell[s].built + 1
    IN  /\ t \in lazy.cell[s].by
        /\ lazy' = [lazy EXCEPT !.cell[s].state = "init",
                                !.cell[s].by = @ \ {t},
                                !.cell[s].built = n,
                                !.ref[t] = <<s, n>>]
        /\ UNCHANGED <<env, mutex, pc, frame, exitKind, lockGuard, scopes, cur, after,
                       iter, ops, obs, rel, view, env0>>

\* The static is dereferenced after its initialisation (a thread that came
\* while the initialiser ran has waited for it).
ForceReady(t) ==
    LET s == MacroStatic(t)
    IN  /\ AtLock(t)
        /\ lazy.ref[t] = NoRef
        /\ t \notin lazy.cell[s].by
        /\ lazy.cell[s].state = "init"
        /\ lazy' = [lazy EXCEPT !.ref[t] = <<s, lazy.cell[s].built>>]
        /\ UNCHANGED <<env, mutex, pc, frame, exitKind, lockGuard, scopes, cur, after,
                       iter, ops, obs, rel, view, env0>>

\* .lock() on the Mutex the static dereferenced to
LockStatic(t) ==
    /\ lazy.ref[t] # NoRef
    /\ Lock(t)

\* The threads of the wrapped functions, with the first access to the static
\* followed step by step; each body makes at most one mutation.
NextLazy ==
    \E t \in Threads :
        \/ Call(t)
        \/ ForceBegin(t)
        \/ ForceInit(t)
        \/ ForceReady(t)
        \/ LockStatic(t)
        \/ WrapNew(t)
        \/ \E k \in Names, v \in Values : ops[t] = 0 /\ SetVar(t, k, v)
        \/ \E k \in Names : ops[t] = 0 /\ RemoveVar(t, k)
        \/ \E kind \in {"fall", "return", "panic"} : BodyEnd(t, kind)
        \/ WrapDrop(t)
        \/ \E k \in Names : DropRemove(t, k)
        \/ DropRemoveDone(t)
        \/ \E k \in Names : DropSet(t, k)
        \/ DropEnd(t)
        \/ Unlock(t)

SpecLazy == Init /\ [][NextLazy]_vars

\* ------------------------------------------------------------- nested call
\* Mutant of Relock: the mutex is reentrant.
RelockReentrant(m, held) == held \/ CanLock(m)

\* Mutex::lock() by a thread that may hold the mutex already (held): the mutex
\* keeps no owner, the call waits for it to be free like any other.
Relock(m, held) == CanLock(m)

\* The body calls another function generated by #[temp_env_vars].
InnerCall(t) ==
    /\ pc[t] = "body"
    /\ pc' = [pc EXCEPT ![t] = "inner_enter"]
    /\ rel' = [rel EXCEPT ![t] = NoRel]
    /\ UNCHANGED <<env, mutex, frame, exitKind, lockGuard, scopes, cur, after, iter,
                   ops, obs, view, env0, lazy>>

\* The inner function's lock() returns and its body starts.
InnerLock(t) ==
    /\ pc[t] = "inner_enter"
    /\ Relock(mutex, Holds(t))
    /\ mutex' = [mutex EXCEPT !.locked = TRUE]
    /\ pc' = [pc EXCEPT ![t] = "inner_body"]
    /\ UNCHANGED <<env, frame, exitKind, lockGuard, scopes, cur, after, iter, ops,
                   obs, rel, view, env0, lazy>>

\* lock() on a mutex the thread holds does not return: it blocks for ever (no
\* step) or panics.  The panic unwinds out of the inner function, which has
\* no local yet, and through the outer body.
InnerPanic(t) ==
    /\ pc[t] = "inner_enter"
    /\ Holds(t)
    /\ exitKind' = [exitKind EXCEPT ![t] = "panic"]
    /\ frame' = [frame EXCEPT ![t] = Unwound(@, "panic")]
    /\ pc' = [pc EXCEPT ![t] = "exit"]
    /\ UNCHANGED <<env, mutex, lockGuard, scopes, cur, after, iter, ops, obs, rel,
                   view, env0, lazy>>

\* Threads whose wrapped function may call a wrapped function; each body makes
\* at most one mutation.
NextNested ==
    \E t \in Threads :
        \/ Call(t)
        \/ Lock(t)
        \/ WrapNew(t)
        \/ \E k \in Names, v \in Values : ops[t] = 0 /\ SetVar(t, k, v)
        \/ \E k \in Names : ops[t] = 0 /\ RemoveVar(t, k)
        \/ InnerCall(t)
        \/ InnerPanic(t)
        \/ \E kind \in {"fall", "return", "panic"} : BodyEnd(t, kind)
        \/ WrapDrop(t)
        \/ \E k \in Names : DropRemove(t, k)
        \/ DropRemoveDone(t)
        \/ \E k \in Names : DropSet(t, k)
        \/ DropEnd(t)
        \/ Unlock(t)

SpecNested == Init /\ [][NextNested]_vars

\* ------------------------------------------------------------- explicit drop
\* Mutant of MovedOut: the local stays in the frame after its value was passed
\* to drop().
MovedOutKept(f) == f

\* drop(_env_scope) takes the scope by value: the local is moved out of and is
\* not dropped when its block ends.
MovedOut(f) == SelectSeq(f, LAMBDA x : x # SCOPE)

\* drop(_env_scope): the argument is moved into the call
Moved(t) ==
    /\ pc[t] = "body"
    /\ scopes[t][WrapSlot].st = "alive"
    /\ frame' = [frame EXCEPT ![t] = MovedOut(@)]
    /\ pc' = [pc EXCEPT ![t] = "call_drop"]
    /\ UNCHANGED <<env, mutex, exitKind, lockGuard, scopes, cur, after, iter, ops,
                   obs, rel, view>>
    /\ UNCHANGED <<env0, lazy>>

\* drop(_env_scope): the scope's drop() runs inside the call
ExplicitDrop(t) ==
    /\ pc[t] = "call_drop"
    /\ DropBegin(t, WrapSlot)

\* One thread runs a function that declares a scope, may drop it by hand and
\* goes on mutating the environment until its block ends.
NextBlock ==
    \/ BareNew(Main)
    \/ \E k \in Names, v \in Values : SetVar(Main, k, v)
    \/ \E k \in Names : RemoveVar(Main, k)
    \/ Moved(Main)
    \/ ExplicitDrop(Main)
    \/ \E kind \in {"fall", "return", "panic"} : BodyEnd(Main, kind)
    \/ WrapDrop(Main)
    \/ \E k \in Names : DropRemove(Main, k)
    \/ DropRemoveDone(Main)
    \/ \E k \in Names : DropSet(Main, k)
    \/ DropEnd(Main)

SpecBlock == Init /\ [][NextBlock]_vars

\* ------------------------------------------------------------- claims
NamesOf(e) == {p[1] : p \in e}

\* The scopes of thread t that exist: constructed and not yet fully dropped.
Existing(t) == {g \in Slots : scopes[t][g].st \in {"alive", "dropping"}}

\* Thread t is at a point of the wrapper where its next step reads or writes
\* the environment.
AtEnvAccess(t) ==
    \/ pc[t] \in {"body", "drop_remove", "drop_set"}
    \/ pc[t] = "enter" /\ NextLet(frame[t]) = SCOPE
    \/ pc[t] = "exit" /\ Head(frame[t]) = SCOPE

\* The map o holds exactly the entries of the environment e.
SnapshotIs(o, e) ==
    \A k \in Names, v \in Values : <<k, v>> \in e <=> (k \in DOMAIN o /\ o[k] = v)

\* C1: exact restore. Whenever a scope of the single thread has just been
\* released, the environment has exactly the entries it had when that scope
\* was constructed, whatever was set or removed in between, in the first
\* construct/mutate/release cycle and in every later one.
C1_ExactRestore == rel[Main].g # 0 => env = rel[Main].e0

\* A second cycle has just ended, after a set and a remove inside it.
C1_Witness ==
    /\ rel[Main].g # 0
    /\ rel[Main].changed # {}
    /\ rel[Main].removed # {}
    /\ \E g \in Slots : g < rel[Main].g /\ scopes[Main][g].st = "dead"

\* C2: mutual exclusion. At most one thread is between acquiring the shared
\* mutex and releasing it, and at most one protected body is executing.
C2_MutualExclusion ==
    /\ Cardinality({t \in Threads : Holds(t)}) <= 1
    /\ Cardinality({t \in Threads : pc[t] = "body"}) <= 1
    /\ \A t \in Threads : pc[t] = "body" => Holds(t)

\* One wrapped function runs its body while another one waits for the lock.
C2_Witness ==
    \E t, u \in Threads : t # u /\ pc[t] = "body" /\ Holds(t) /\ AtLock(u)

\* C3: no interference. At every point of a protected body the environment is
\* what the section's own code read and wrote: a variable the section has set
\* still has the section's value, and no write or restore of another section
\* is visible.
C3_NoInterference == \A t \in Threads : pc[t] = "body" => env = view[t]

\* A section has set a variable to its own value, different from the value at
\* its start, while another section, called concurrently, waits for the lock.
C3_Witness ==
    \E t, u \in Threads : \E k \in Names :
        /\ t # u
        /\ pc[t] = "body"
        /\ k \in obs[t][WrapSlot].changed
        /\ k \in NamesOf(view[t])
        /\ AtLock(u)

\* C4: lock/guard ordering. While the wrapper's scope exists (from its snapshot
\* to the end of its restore) the thread holds the mutex, and the thread holds
\* it at every point where its next step reads or writes the environment.
C4_LockGuardOrdering ==
    \A t \in Threads :
        /\ Existing(t) # {} => Holds(t)
        /\ AtEnvAccess(t) => Holds(t)
        /\ rel[t].g # 0 => Holds(t)

\* The restore of a section that changed the environment has just completed,
\* and the section still holds the mutex.
C4_Witness ==
    \E t \in Threads :
        /\ rel[t].g # 0
        /\ rel[t].changed # {}
        /\ Holds(t)
        /\ mutex.locked

\* C5: addition-reversal. A name absent when the scope was constructed and set
\* during the scope is absent when the scope has just been released.
C5_AdditionReversal ==
    rel[Main].g # 0 =>
        \A k \in rel[Main].changed :
            k \notin NamesOf(rel[Main].e0) => k \notin NamesOf(env)

C5_Witness ==
    /\ rel[Main].g # 0
    /\ \E k \in rel[Main].changed : k \notin NamesOf(rel[Main].e0)

\* C6: modification-reversal. A name present with value V when the scope was
\* constructed and set to another value during the scope has value V when the
\* scope has just been released.
C6_ModificationReversal ==
    rel[Main].g # 0 =>
        \A k \in rel[Main].changed : \A v \in Values :
            <<k, v>> \in rel[Main].e0 => <<k, v>> \in env

C6_Witness ==
    /\ rel[Main].g # 0
    /\ \E k \in rel[Main].changed \ rel[Main].removed : k \in NamesOf(rel[Main].e0)

\* C7: deletion-reversal. A name present with value V when the scope was
\* constructed and removed during the scope (and possibly set or removed
\* again) has value V when the scope has just been released.
C7_DeletionReversal ==
    rel[Main].g # 0 =>
        \A k \in rel[Main].removed : \A v \in Values :
            <<k, v>> \in rel[Main].e0 => <<k, v>> \in env

C7_Witness ==
    /\ rel[Main].g # 0
    /\ \E k \in rel[Main].removed \ rel[Main].changed : k \in NamesOf(rel[Main].e0)

\* C8: nesting independence. When a scope constructed second is released while
\* the scope constructed first is alive, the environment equals the second
\* scope's snapshot; when the first scope is released after it, the environment
\* equals the first scope's snapshot.
C8_NestingIndependence ==
    LET r == rel[Main]
    IN  /\ (r.g # 0 /\ \E g \in Slots : g < r.g /\ scopes[Main][g].st = "alive")
               => env = r.e0
        /\ (r.g # 0 /\ \E h \in Slots : h > r.g /\ scopes[Main][h].st = "dead")
               => env = r.e0

\* The inner scope has just been released; its snapshot differs from the outer
\* scope's (mutations between the two constructions) and the environment was
\* mutated after the inner construction.
C8_Witness ==
    LET r == rel[Main]
    IN  /\ r.g # 0
        /\ r.changed \cup r.removed # {}
        /\ \E g \in Slots :
               /\ g < r.g
               /\ scopes[Main][g].st = "alive"
               /\ obs[Main][g].e0 # r.e0

\* C9: restore on every exit path. When the body of a wrapped function ends by
\* a panic or an early return, the scope's restore runs: once it has run the
\* environment equals the snapshot and the mutex is still held, and the call is
\* over only with the scope dropped and the mutex released.
C9_RestoreOnEveryExit ==
    \A t \in Threads :
        /\ (rel[t].g # 0 /\ exitKind[t] \in {"panic", "return"})
               => (env = rel[t].e0 /\ Holds(t))
        /\ pc[t] = "done" => (Existing(t) = {} /\ scopes[t][WrapSlot].st = "dead"
                              /\ ~Holds(t))

\* A body that changed the environment panicked, and its restore has run.
C9_Witness ==
    \E t \in Threads :
        /\ rel[t].g # 0
        /\ exitKind[t] = "panic"
        /\ rel[t].changed \cup rel[t].removed # {}

\* C10: poisoning is tolerated. With the mutex poisoned and free, a wrapped
\* function waiting at the lock can take it; a function that got the poisoned
\* result holds the mutex, alone, and runs its body.
C10_PoisonTolerated ==
    \A t \in Threads :
        /\ (mutex.poisoned /\ ~mutex.locked /\ AtLock(t)) => ENABLED Lock(t)
        /\ lockGuard[t] = "Err" =>
               (mutex.locked /\ \A u \in Threads \ {t} : ~Holds(u))
        /\ (mutex.poisoned /\ pc[t] = "body") => Holds(t)

\* A section runs its body after an earlier section panicked.
C10_Witness ==
    \E t \in Threads : lockGuard[t] = "Err" /\ pc[t] = "body" /\ mutex.poisoned


\* C11: two threads that each construct a guard, mutate the environment and
\* release the guard without holding the mutex can corrupt the environment:
\* C11_Witness is a reachable state where both releases have finished and the
\* environment differs from what it was before either guard was constructed.
\* What the unprotected guard still gives is the sequential case only: a
\* release that finishes while no other thread has started leaves exactly the
\* guard's snapshot.
C11_UnprotectedOnlySequential ==
    \A t \in Pair :
        (rel[t].g # 0 /\ \A u \in Pair \ {t} : pc[u] = "idle")
            => env = rel[t].e0

C11_Witness ==
    /\ \A t \in Pair : pc[t] = "done" /\ rel[t].g # 0
    /\ env # env0


\* C12: with finitely many threads that each run one protected section whose
\* body terminates, every thread that starts to acquire the mutex eventually
\* has acquired it, run its body, restored the environment and released the
\* mutex: no thread waits forever.
C12_Progress ==
    \A t \in Threads :
        pc[t] = "enter" ~> (pc[t] = "done" /\ ~Holds(t) /\ Existing(t) = {})

\* Every thread has run its section, the last one after a panic of another.
C12_Witness ==
    /\ \A t \in Threads : pc[t] = "done"
    /\ mutex.poisoned
    /\ ~mutex.locked


\* C13: release order does not matter. When a scope is released while a scope
\* constructed after it is still alive (the outer one first), the environment
\* right after the release equals the released scope's own snapshot, and every
\* scope that is still alive holds the snapshot it took at its construction.
C13_AnyReleaseOrder ==
    LET r == rel[Main]
    IN  (r.g # 0 /\ \E h \in Slots : h > r.g /\ scopes[Main][h].st = "alive")
            => /\ env = r.e0
               /\ \A h \in Alive(Main) :
                      SnapshotIs(scopes[Main][h].original_vars, obs[Main][h].e0)

\* The scope constructed first has just been released while the second is
\* alive; the two snapshots differ and the release had something to undo.
C13_Witness ==
    LET r == rel[Main]
    IN  /\ r.g # 0
        /\ r.changed \cup r.removed # {}
        /\ \E h \in Slots :
               /\ h > r.g
               /\ scopes[Main][h].st = "alive"
               /\ obs[Main][h].e0 # r.e0


\* C14: snapshot immutability. From the end of new() until the scope's release
\* has finished, original_vars holds exactly the environment captured at
\* construction: no set_var or remove_var, no construction or release of
\* another scope and no step of the scope's own release changes it.
C14_SnapshotImmutable ==
    \A t \in Threads : \A g \in Existing(t) :
        SnapshotIs(scopes[t][g].original_vars, obs[t][g].e0)

\* A scope is in the middle of writing its snapshot back, after the
\* environment was mutated under it and another scope was constructed and
\* released.
C14_Witness ==
    \E g \in Slots :
        /\ scopes[Main][g].st = "dropping"
        /\ pc[Main] = "drop_set"
        /\ iter[Main] # {}
        /\ iter[Main] # RestoreKeys(scopes[Main][g].original_vars)
        /\ obs[Main][g].changed \cup obs[Main][g].removed # {}
        /\ \E h \in Slots : h # g /\ scopes[Main][h].st = "dead"


\* C15: quiescent state. With the environment mutated only inside protected
\* sections, whenever the mutex is not held the environment equals the
\* environment at process start, and the snapshot every protected body runs
\* under is that environment: a variable unset at process start is unset when
\* a body starts.
C15_QuiescentState ==
    /\ ~mutex.locked => env = env0
    /\ \A t \in Threads :
           WrapSlot \in Existing(t) => obs[t][WrapSlot].e0 = env0
    /\ \A t \in Threads :
           (pc[t] = "body" /\ ops[t] = 0) => env = env0

\* A protected body is about to start after another section has run and ended
\* in a panic.
C15_Witness ==
    \E t \in Threads, u \in Threads :
        /\ pc[t] = "body"
        /\ ops[t] = 0
        /\ pc[u] = "done"
        /\ mutex.poisoned


\* C16: release touches only what it must. In every step of a release, a name
\* that leaves the environment is absent from the snapshot, an entry that
\* enters the environment is an entry of the snapshot, and a variable that has
\* its snapshot value keeps it; when the removals are over no name outside
\* the snapshot is left.
C16_ReleaseFrame ==
    [][\A t \in Threads :
          (pc[t] \in {"drop_remove", "drop_set"} /\ cur[t] # 0) =>
              LET o == scopes[t][cur[t]].original_vars
              IN  /\ \A k \in NamesOf(env) \ NamesOf(env') : k \notin DOMAIN o
                  /\ \A p \in env' \ env : p[1] \in DOMAIN o /\ o[p[1]] = p[2]
                  /\ \A k \in DOMAIN o : <<k, o[k]>> \in env => <<k, o[k]>> \in env'
                  /\ (pc[t] = "drop_remove" /\ pc'[t] = "drop_set")
                         => NamesOf(env) \subseteq DOMAIN o]_vars

\* A release has removed an added variable and is writing the snapshot back,
\* with one variable of the snapshot untouched since construction and another
\* one still to be written.
C16_Witness ==
    /\ pc[Main] = "drop_set"
    /\ cur[Main] # 0
    /\ after[Main] # EmptyMap
    /\ iter[Main] # {}
    /\ LET o == scopes[Main][cur[Main]].original_vars
       IN  \E k \in DOMAIN o :
               /\ k \notin obs[Main][cur[Main]].changed \cup obs[Main][cur[Main]].removed
               /\ <<k, o[k]>> \in env


\* C17: construction has no effect on the environment. In the step that
\* constructs a scope the environment stays as it is, and the snapshot the new
\* scope holds is the whole environment of that moment, entry for entry.
C17_ConstructionNoEffect ==
    [][\A t \in Threads : \A g \in Slots :
          (scopes[t][g].st = "unborn" /\ scopes'[t][g].st = "alive") =>
              /\ env' = env
              /\ SnapshotIs(scopes'[t][g].original_vars, env)
              /\ \A h \in Slots \ {g} : scopes'[t][h] = scopes[t][h]]_vars

\* A scope has just been constructed in an environment that is not empty and
\* that an earlier scope, still alive, has seen changed.
C17_Witness ==
    \E g \in Slots, h \in Slots :
        /\ h < g
        /\ scopes[Main][g].st = "alive"
        /\ scopes[Main][h].st = "alive"
        /\ obs[Main][g].changed \cup obs[Main][g].removed = {}
        /\ obs[Main][h].changed # {}
        /\ env = obs[Main][g].e0
        /\ env # {}


\* C18: restore happens exactly once per guard. Once a scope has been
\* released, by an explicit drop or at the end of its block, it is never
\* released again: its local is no longer among the locals the block end
\* drops, and from then on the environment changes only by the body's own
\* set_var and remove_var, which nothing reverts.
C18_RestoreOnce ==
    [][\A t \in Threads :
          /\ scopes'[t][WrapSlot].st = "dead" =>
                 SCOPE \notin {frame'[t][i] : i \in 1..Len(frame'[t])}
          /\ scopes[t][WrapSlot].st = "dead" =>
                 /\ scopes'[t][WrapSlot].st = "dead"
                 /\ env' # env => ops'[t] = ops[t] + 1]_vars

\* The block has ended after an explicit drop that had something to undo, and
\* what the body did after the drop is still in the environment.
C18_Witness ==
    /\ pc[Main] = "done"
    /\ scopes[Main][WrapSlot].st = "dead"
    /\ exitKind[Main] # "none"
    /\ ops[Main] = MaxOps
    /\ env # env0


\* C19: single shared lock. Every wrapped function locks the one Mutex of the
\* temp_env_vars crate's TEMP_ENV_VAR_MACRO_MUTEX: each static builds at most
\* one Mutex, also when several threads access it for the first time at once,
\* every thread's reference is to the first Mutex of temp_env_vars, and a
\* thread that holds the lock holds it through that reference.
C19_SingleSharedLock ==
    /\ \A s \in Statics : lazy.cell[s].built <= 1
    /\ \A t \in Threads :
           lazy.ref[t] # NoRef => lazy.ref[t] = <<"temp_env_vars", 1>>
    /\ \A t \in Threads, u \in Threads :
           (Holds(t) /\ lazy.ref[u] # NoRef) => lazy.ref[t] = lazy.ref[u]
    /\ lazy.cell["temp_env_vars_core"].state = "uninit"

\* Two threads came to the static before it was initialised; one ran the
\* initialiser, the other waited, and one of them is in its body now.
C19_Witness ==
    \E t \in Threads, u \in Threads :
        /\ t # u
        /\ pc[t] = "body"
        /\ lazy.ref[t] # NoRef
        /\ lazy.ref[u] # NoRef
        /\ AtLock(u)


\* C20: the mutex is not reentrant. While a thread is in a wrapped function
\* called from the body of its own wrapped function, the outer section holds
\* the lock and the inner lock() cannot return: the inner body never starts,
\* and the thread either stays there or leaves by a panic, so the outer
\* section does not complete normally.
C20_NotReentrant ==
    [][\A t \in Threads :
          pc[t] = "inner_enter" =>
              /\ Holds(t) /\ mutex.locked
              /\ ~ENABLED InnerLock(t)
              /\ pc'[t] # "inner_body"
              /\ \/ pc'[t] = "inner_enter"
                 \/ pc'[t] = "exit" /\ exitKind'[t] = "panic"]_vars

\* A thread is blocked in the inner lock() after its body changed the
\* environment, with another thread waiting for the same mutex.
C20_Witness ==
    \E t \in Threads, u \in Threads :
        /\ pc[t] = "inner_enter"
        /\ ops[t] > 0
        /\ AtLock(u)

====
